---- MODULE Spec2Model ----
(***************************************************************************)
(* A model of efd.linear_algebra: the matrix value model (matrix.py), the  *)
(* elementary row operators (elementary_row_operator.py), the elimination  *)
(* engine solve (gaussian_elimination.py) and the derived queries invert   *)
(* and determinant; and of efd.distribution: the exponential-family        *)
(* density (exponential_family.py) and the Gaussian distribution with its  *)
(* caches (gaussian_distribution.py).                                      *)
(*                                                                         *)
(* Numbers.  The program computes with Python floats.  The model computes  *)
(* with exact fractions <<numerator, denominator>> in lowest terms, so     *)
(* every statement below is a statement about the algorithm in exact       *)
(* arithmetic; floating-point rounding is not represented.  The tolerance  *)
(* 1e-4 of the pivot test is the exact fraction 1/10000.                   *)
(*                                                                         *)
(* Indices.  Row and column indices kept in operator records and in        *)
(* column_index are the program's 0-based indices; a sequence is read at   *)
(* index + 1.                                                              *)
(*                                                                         *)
(* Exceptions.  A call that can raise yields an outcome record             *)
(* [ok, value, error]: Return(v) or Raise(e), e the exception's class.     *)
(***************************************************************************)
EXTENDS Integers, Sequences, FiniteSets, TLC

VARIABLES
    a,                  \* the caller's first matrix (solve's argument a)
    y,                  \* the caller's second matrix (solve's argument y)
    s,                  \* the caller's scalar
    pc,                 \* solve: "running", "returned" or "raised"
    m,                  \* _operate_on_one_column: the evolving matrix m
    column_index,       \* _operate_on_one_column: column_index
    result,             \* _operate_on_one_column: the evolving result
    applied_operators,  \* _operate_on_one_column: applied_operators
    raised,             \* exception leaving solve ("" while there is none)
    call,               \* the library call the caller made after solve
    out,                \* the outcome of that call
    args,               \* further arguments of that call (raw rows, an operator)
    theta,              \* GaussianDistribution: its parameter (mean, covariance)
    observation,        \* the observation x handed to density
    cached_precision,   \* the cached_property slot of theta.precision
    cached_natural_parameter,  \* the cached_property slot of natural_parameter
    log_partition_cache,       \* the lru_cache of log_partition: theta -> value
    invert_calls,       \* the number of executions of invert(covariance)
    precision_reads     \* the number of reads of theta.precision

\* The state of one GaussianDistribution and of the caches its calls fill.
gaussian == <<theta, observation, cached_precision, cached_natural_parameter,
              log_partition_cache, invert_calls, precision_reads>>

vars == <<a, y, s, pc, m, column_index, result, applied_operators, raised,
          call, out, args, gaussian>>

---------------------------------------------------------------------------
(* Bounds of the model.                                                    *)

MaxDim == 2

---------------------------------------------------------------------------
(* Numbers: exact fractions in lowest terms with a positive denominator.   *)

Abs(i) == IF i < 0 THEN -i ELSE i

RECURSIVE GCD(_, _)
GCD(i, j) == IF j = 0 THEN i ELSE GCD(j, i % j)

Frac(n, d) ==
    LET g == GCD(Abs(n), Abs(d))
        sg == IF d < 0 THEN -1 ELSE 1
    IN  <<(sg * n) \div g, (sg * d) \div g>>

Num(i) == <<i, 1>>
Zero == Num(0)
One == Num(1)

RAdd(p, q) ==
    IF p[1] = 0 THEN q
    ELSE IF q[1] = 0 THEN p
    ELSE IF p[2] = 1 /\ q[2] = 1 THEN <<p[1] + q[1], 1>>
    ELSE LET g == GCD(p[2], q[2])
         IN  Frac(p[1] * (q[2] \div g) + q[1] * (p[2] \div g), (p[2] \div g) * q[2])

RNeg(p) == <<-p[1], p[2]>>

RSub(p, q) == RAdd(p, RNeg(q))

RMul(p, q) ==
    IF p[1] = 0 \/ q[1] = 0 THEN <<0, 1>>
    ELSE IF p[2] = 1 /\ q[2] = 1 THEN <<p[1] * q[1], 1>>
    ELSE LET g1 == GCD(Abs(p[1]), q[2])
             g2 == GCD(Abs(q[1]), p[2])
         IN  Frac((p[1] \div g1) * (q[1] \div g2), (p[2] \div g2) * (q[2] \div g1))

RDiv(p, q) == RMul(p, Frac(q[2], q[1]))

RAbs(p) == <<Abs(p[1]), p[2]>>

\* p > q, compared by integer part first so that no product leaves the
\* range of the model's integers.
RGt(p, q) ==
    LET fp == p[1] \div p[2]
        fq == q[1] \div q[2]
    IN  IF fp # fq THEN fp > fq
        ELSE (p[1] % p[2]) * q[2] > (q[1] % q[2]) * p[2]

\* The literal 1e-4 of __partial_pivot_operator.
Tolerance == Frac(1, 10000)

Min2(i, j) == IF i < j THEN i ELSE j

\* A Python tuple built from a generator: every element is computed once, when
\* the tuple is built.
Tuple(f) == <<>> \o f

RECURSIVE SumSeq(_)
SumSeq(xs) == IF xs = <<>> THEN Zero ELSE RAdd(SumSeq(SubSeq(xs, 1, Len(xs) - 1)), xs[Len(xs)])

---------------------------------------------------------------------------
(* Outcomes of calls.                                                      *)

\* A local name: the value is computed once, where it is assigned, and Body
\* reads it.
Let(value, Body(_)) == CHOOSE r \in {Body(v) : v \in {value}} : TRUE

NoValue == <<>>
Return(v) == [ok |-> TRUE, value |-> v, error |-> ""]
Raise(e) == [ok |-> FALSE, value |-> NoValue, error |-> e]

---------------------------------------------------------------------------
(* matrix.py: the matrix value model.  A matrix is a record of its class   *)
(* (the dataclass that holds it) and its rows; a scalar operand is a       *)
(* record of class "float".                                                *)

Float(q) == [cls |-> "float", value |-> q]

n_rows(M) == Len(M.rows)

n_columns(M) == Len(M.rows[1])

\* Matrix.make: the class is chosen by the shape, in this order.
make(rows) ==
    LET nr == Len(rows)
        nc == Len(rows[1])
    IN  IF nr = 1 THEN [cls |-> "RowVector", rows |-> rows]
        ELSE IF nc = 1 THEN [cls |-> "ColumnVector", rows |-> rows]
        ELSE IF nr = nc THEN [cls |-> "SquareMatrix", rows |-> rows]
        ELSE [cls |-> "RectangularMatrix", rows |-> rows]

from_iterator(rows) == make(rows)

\* Matrix.__post_init__ and its overrides: "" when the value is accepted,
\* otherwise the class of the exception raised.
post_init(cls, rows) ==
    LET widths == {Len(rows[i]) : i \in 1..Len(rows)}
        base == IF Cardinality(widths) > 1 THEN "ValueError"
                ELSE IF Len(rows) = 0 \/ Len(rows[1]) = 0 THEN "ValueError"
                ELSE ""
    IN  CASE cls = "RowVector" ->
                IF Len(rows) # 1 THEN "ValueError" ELSE base
          [] cls = "ColumnVector" ->
                IF Len(rows) = 0 THEN "IndexError"
                ELSE IF Len(rows[1]) # 1 THEN "ValueError" ELSE base
          [] cls = "SquareMatrix" ->
                IF base # "" THEN base
                ELSE IF Len(rows) # Len(rows[1]) THEN "ValueError" ELSE ""
          [] OTHER ->
                IF base # "" THEN base
                ELSE IF Len(rows) = Len(rows[1]) THEN "ValueError" ELSE ""

\* The dataclass __eq__ of Matrix: same class and equal rows.
Matrix__eq__(M, N) == M.cls = N.cls /\ M.rows = N.rows

_column(M, column_index_) == Tuple([i \in 1..n_rows(M) |-> M.rows[i][column_index_ + 1]])

columns(M) == Tuple([j \in 1..n_columns(M) |-> _column(M, j - 1)])

transpose(M) == from_iterator(columns(M))

\* Matrix._replace_rows: dataclasses.replace keeps the class of self.
_replace_rows(self, new_rows) ==
    IF n_rows(self) # Len(new_rows) \/ n_columns(self) # Len(new_rows[1])
    THEN Raise("ValueError")
    ELSE IF post_init(self.cls, new_rows) # ""
    THEN Raise(post_init(self.cls, new_rows))
    ELSE Return([cls |-> self.cls, rows |-> new_rows])

\* The element functions handed to the two helpers below.
ElementFunction(f, other, x) ==
    CASE f = "radd" -> RAdd(other, x)
      [] f = "rsub" -> RSub(other, x)
      [] f = "rmul" -> RMul(other, x)

ElementFunction2(f, this, that) ==
    CASE f = "add" -> RAdd(this, that)
      [] f = "sub" -> RSub(this, that)

_apply_function_to_single_elements(self, f, other) ==
    Tuple([i \in 1..n_rows(self) |->
        Tuple([j \in 1..Len(self.rows[i]) |-> ElementFunction(f, other, self.rows[i][j])])])

_apply_function_to_two_elements(self, other, f) ==
    Tuple([i \in 1..n_rows(self) |->
        Tuple([j \in 1..Len(self.rows[i]) |->
            ElementFunction2(f, self.rows[i][j], other.rows[i][j])])])

\* Reading other.n_rows of a float raises AttributeError.
Matrix__add__(self, other) ==
    IF other.cls = "float" THEN Raise("AttributeError")
    ELSE IF n_rows(self) # n_rows(other) \/ n_columns(self) # n_columns(other)
    THEN Raise("ValueError")
    ELSE _replace_rows(self, _apply_function_to_two_elements(self, other, "add"))

Matrix__radd__(self, other) ==
    _replace_rows(self, _apply_function_to_single_elements(self, "radd", other.value))

Matrix__sub__(self, other) ==
    IF other.cls = "float" THEN Raise("AttributeError")
    ELSE IF n_rows(self) # n_rows(other) \/ n_columns(self) # n_columns(other)
    THEN Raise("ValueError")
    ELSE _replace_rows(self, _apply_function_to_two_elements(self, other, "sub"))

\* Variant: the scalar is subtracted from the element.
Matrix__rsub__Reversed(self, other) ==
    _replace_rows(self, Tuple([i \in 1..n_rows(self) |->
        Tuple([j \in 1..Len(self.rows[i]) |-> RSub(self.rows[i][j], other.value)])]))

Matrix__rsub__(self, other) ==
    _replace_rows(self, _apply_function_to_single_elements(self, "rsub", other.value))

__multiply_row_with_matrix(self, row_index, other) ==
    Tuple([j \in 1..n_columns(other) |->
        SumSeq(Tuple([k \in 1..Min2(Len(self.rows[row_index + 1]), n_rows(other)) |->
                    RMul(self.rows[row_index + 1][k], other.rows[k][j])]))])

_multiply_with_matrix(self, other) ==
    Tuple([i \in 1..n_rows(self) |-> __multiply_row_with_matrix(self, i - 1, other)])

\* Variant: the column counts are compared.
Matrix__mul__ColumnCheck(self, other) ==
    IF other.cls = "float" THEN Raise("AttributeError")
    ELSE IF n_columns(self) # n_columns(other) THEN Raise("ValueError")
    ELSE Return(from_iterator(_multiply_with_matrix(self, other)))

Matrix__mul__(self, other) ==
    IF other.cls = "float" THEN Raise("AttributeError")
    ELSE IF n_columns(self) # n_rows(other) THEN Raise("ValueError")
    ELSE Return(from_iterator(_multiply_with_matrix(self, other)))

Matrix__rmul__(self, other) ==
    _replace_rows(self, _apply_function_to_single_elements(self, "rmul", other.value))

\* Python's dispatch of a binary operator: the left operand's method when the
\* left operand is a matrix, the right operand's reflected method when the
\* left operand is a number.
Add(left, right) ==
    IF left.cls # "float" THEN Matrix__add__(left, right) ELSE Matrix__radd__(right, left)

Sub(left, right) ==
    IF left.cls # "float" THEN Matrix__sub__(left, right) ELSE Matrix__rsub__(right, left)

Mul(left, right) ==
    IF left.cls # "float" THEN Matrix__mul__(left, right) ELSE Matrix__rmul__(right, left)

as_square_matrix(M) ==
    IF post_init("SquareMatrix", M.rows) # "" THEN Raise(post_init("SquareMatrix", M.rows))
    ELSE Return([cls |-> "SquareMatrix", rows |-> M.rows])

\* matrix(*rows): Matrix.make reads rows[0] before any instance is built.
matrix(rows) ==
    IF Len(rows) = 0 THEN Raise("IndexError")
    ELSE IF post_init(make(rows).cls, rows) # "" THEN Raise(post_init(make(rows).cls, rows))
    ELSE Return(make(rows))

square_matrix(rows) ==
    IF ~matrix(rows).ok THEN matrix(rows) ELSE as_square_matrix(matrix(rows).value)

column_vector(elements) ==
    LET rows == Tuple([i \in 1..Len(elements) |-> <<elements[i]>>])
    IN  IF post_init("ColumnVector", rows) # "" THEN Raise(post_init("ColumnVector", rows))
        ELSE Return([cls |-> "ColumnVector", rows |-> rows])

\* Variant: the diagonal is looked for one column to the right.
IdentityMatrixRow_OffByOne(row_index, n_columns_) ==
    Tuple([j \in 1..n_columns_ |-> IF row_index = j THEN One ELSE Zero])

__identity_matrix_row(row_index, n_columns_) ==
    Tuple([j \in 1..n_columns_ |-> IF row_index = j - 1 THEN One ELSE Zero])

__identity_matrix_rows(n_rows_) ==
    Tuple([i \in 1..n_rows_ |-> __identity_matrix_row(i - 1, n_rows_)])

identity_matrix(n_rows_) ==
    as_square_matrix(from_iterator(__identity_matrix_rows(n_rows_)))

---------------------------------------------------------------------------
(* elementary_row_operator.py: the three elementary row operators.         *)

ElementaryPermutation(indices) ==
    [kind |-> "ElementaryPermutation", indices_of_rows_to_interchange |-> indices]

ElementaryMultiplication(index, scalar) ==
    [kind |-> "ElementaryMultiplication", index_of_row_to_multiply |-> index,
     scalar |-> scalar]

ElementaryAxpy(scalar, multiply, replace) ==
    [kind |-> "ElementaryAxpy", scalar |-> scalar,
     index_of_row_to_multiply |-> multiply, index_of_row_to_replace |-> replace]

noop == ElementaryPermutation(<<0, 0>>)

\* ElementaryPermutation.__matrix_row: the unit row of row_index.
Permutation__matrix_row(row_index, n_columns_) ==
    Tuple([j \in 1..n_columns_ |-> IF j - 1 = row_index THEN One ELSE Zero])

Permutation__matrix_rows(op, n_rows_) ==
    LET ix == op.indices_of_rows_to_interchange
    IN  Tuple([i \in 1..n_rows_ |->
            IF i - 1 # ix[1] /\ i - 1 # ix[2] THEN Permutation__matrix_row(i - 1, n_rows_)
            ELSE IF i - 1 = ix[1] THEN Permutation__matrix_row(ix[2], n_rows_)
            ELSE Permutation__matrix_row(ix[1], n_rows_)])

Multiplication__matrix_row(op, row_index, n_columns_) ==
    Tuple([j \in 1..n_columns_ |->
        IF row_index # j - 1 THEN Zero
        ELSE IF row_index = op.index_of_row_to_multiply THEN op.scalar
        ELSE One])

Multiplication__matrix_rows(op, n_rows_) ==
    Tuple([i \in 1..n_rows_ |-> Multiplication__matrix_row(op, i - 1, n_rows_)])

Axpy__matrix_row(op, row_index, n_columns_) ==
    Tuple([j \in 1..n_columns_ |->
        IF row_index = j - 1 THEN One
        ELSE IF row_index = op.index_of_row_to_replace
                /\ j - 1 = op.index_of_row_to_multiply THEN op.scalar
        ELSE Zero])

Axpy__matrix_rows(op, n_rows_) ==
    Tuple([i \in 1..n_rows_ |-> Axpy__matrix_row(op, i - 1, n_rows_)])

\* ElementaryRowOperator._matrix of the three classes.
_matrix(op, n_rows_) ==
    CASE op.kind = "ElementaryPermutation" ->
            as_square_matrix(from_iterator(Permutation__matrix_rows(op, n_rows_))).value
      [] op.kind = "ElementaryMultiplication" ->
            as_square_matrix(from_iterator(Multiplication__matrix_rows(op, n_rows_))).value
      [] op.kind = "ElementaryAxpy" ->
            as_square_matrix(from_iterator(Axpy__matrix_rows(op, n_rows_))).value

\* ElementaryRowOperator.apply: the operator matrix is built with the row
\* count of the operand, so the product's shapes always agree.
apply(op, M) ==
    Let(M, LAMBDA operand :
        Let(_matrix(op, n_rows(operand)), LAMBDA operator_matrix :
            Matrix__mul__(operator_matrix, operand).value))

\* Variant: the inverse of a scaling keeps the scalar.
inverted_ScalarKept(op) ==
    CASE op.kind = "ElementaryPermutation" -> op
      [] op.kind = "ElementaryMultiplication" -> op
      [] op.kind = "ElementaryAxpy" ->
            [op EXCEPT !.scalar = RMul(Num(-1), op.scalar)]

inverted(op) ==
    CASE op.kind = "ElementaryPermutation" -> op
      [] op.kind = "ElementaryMultiplication" ->
            [op EXCEPT !.scalar = RDiv(One, op.scalar)]
      [] op.kind = "ElementaryAxpy" ->
            [op EXCEPT !.scalar = RMul(Num(-1), op.scalar)]

\* Variant: a row exchange contributes 1.
matrix_determinant_NoSign(op) ==
    CASE op.kind = "ElementaryPermutation" -> One
      [] op.kind = "ElementaryMultiplication" -> op.scalar
      [] op.kind = "ElementaryAxpy" -> One

\* Variant: an axpy contributes its scalar.
matrix_determinant_AxpyScalar(op) ==
    CASE op.kind = "ElementaryPermutation" ->
            IF op.indices_of_rows_to_interchange[1] = op.indices_of_rows_to_interchange[2]
            THEN One ELSE Num(-1)
      [] op.kind = "ElementaryMultiplication" -> op.scalar
      [] op.kind = "ElementaryAxpy" -> op.scalar

matrix_determinant(op) ==
    CASE op.kind = "ElementaryPermutation" ->
            IF op.indices_of_rows_to_interchange[1] = op.indices_of_rows_to_interchange[2]
            THEN One ELSE Num(-1)
      [] op.kind = "ElementaryMultiplication" -> op.scalar
      [] op.kind = "ElementaryAxpy" -> One

RECURSIVE apply_operators(_, _)
apply_operators(M, operators) ==
    IF Len(operators) = 0 THEN M
    ELSE apply_operators(apply(operators[1], M), Tail(operators))

---------------------------------------------------------------------------
(* gaussian_elimination.py: solve.                                         *)

\* The loop of __partial_pivot_operator from row_index on.
RECURSIVE PivotSearch(_, _, _)
PivotSearch(M, index, row_index) ==
    IF row_index >= n_rows(M) THEN Raise("RuntimeError")
    ELSE IF RGt(RAbs(M.rows[row_index + 1][index + 1]), Tolerance)
    THEN Return(ElementaryPermutation(<<index, row_index>>))
    ELSE PivotSearch(M, index, row_index + 1)

\* Variant: a diagonal entry equal in magnitude to the tolerance is kept.
partial_pivot_operator_KeepsBoundary(M, index) ==
    IF ~RGt(Tolerance, RAbs(M.rows[index + 1][index + 1])) THEN Return(noop)
    ELSE PivotSearch(M, index, index)

__partial_pivot_operator(M, index) ==
    IF RGt(RAbs(M.rows[index + 1][index + 1]), Tolerance) THEN Return(noop)
    ELSE PivotSearch(M, index, index)

\* Variant: the diagonal row is not skipped.
non_diagonal_zeroing_operators_DiagonalIncluded(M, index) ==
    Tuple([k \in 1..n_rows(M) |->
        ElementaryAxpy(RMul(Num(-1), M.rows[k][index + 1]), index, k - 1)])

\* Variant: the multipliers are divided by the diagonal entry, as if they
\* were to act on the unscaled pivot row.
non_diagonal_zeroing_operators_Rescaled(M, index) ==
    Tuple([k \in 1..(n_rows(M) - 1) |->
        LET row_index == IF k - 1 < index THEN k - 1 ELSE k
        IN  ElementaryAxpy(RDiv(RMul(Num(-1), M.rows[row_index + 1][index + 1]),
                                M.rows[index + 1][index + 1]),
                           index, row_index)])

__non_diagonal_zeroing_operators(M, index) ==
    Tuple([k \in 1..(n_rows(M) - 1) |->
        LET row_index == IF k - 1 < index THEN k - 1 ELSE k
        IN  ElementaryAxpy(RMul(Num(-1), M.rows[row_index + 1][index + 1]),
                           index, row_index)])

\* The diagonal entry is a chosen pivot, so it is never zero here.
__diagonal_scaling_operator(M, index) ==
    ElementaryMultiplication(index, RDiv(One, M.rows[index + 1][index + 1]))

\* Variant: the row exchange is not applied to the result.
ColumnStep_ResultNotPivoted(M, index, res, operators_so_far) ==
    IF n_columns(M) = index
    THEN [status |-> "returned", m |-> M, column_index |-> index, result |-> res,
          applied_operators |-> operators_so_far, error |-> ""]
    ELSE Let(__partial_pivot_operator(M, index), LAMBDA pivot :
         IF ~pivot.ok
         THEN [status |-> "raised", m |-> M, column_index |-> index, result |-> res,
               applied_operators |-> operators_so_far, error |-> pivot.error]
         ELSE Let(pivot.value, LAMBDA pivot_operator :
              Let(apply(pivot_operator, M), LAMBDA pivoted :
              Let(<<__diagonal_scaling_operator(pivoted, index)>>
                      \o __non_diagonal_zeroing_operators(pivoted, index),
                  LAMBDA operators :
                  [status |-> "running",
                   m |-> apply_operators(pivoted, operators),
                   column_index |-> index + 1,
                   result |-> apply_operators(res, operators),
                   applied_operators |->
                       operators_so_far \o <<pivot_operator>> \o operators,
                   error |-> ""]))))

\* Variant: the row exchange is left out of the trace.
ColumnStep_TraceWithoutPivot(M, index, res, operators_so_far) ==
    IF n_columns(M) = index
    THEN [status |-> "returned", m |-> M, column_index |-> index, result |-> res,
          applied_operators |-> operators_so_far, error |-> ""]
    ELSE Let(__partial_pivot_operator(M, index), LAMBDA pivot :
         IF ~pivot.ok
         THEN [status |-> "raised", m |-> M, column_index |-> index, result |-> res,
               applied_operators |-> operators_so_far, error |-> pivot.error]
         ELSE Let(pivot.value, LAMBDA pivot_operator :
              Let(apply(pivot_operator, M), LAMBDA pivoted :
              Let(<<__diagonal_scaling_operator(pivoted, index)>>
                      \o __non_diagonal_zeroing_operators(pivoted, index),
                  LAMBDA operators :
                  [status |-> "running",
                   m |-> apply_operators(pivoted, operators),
                   column_index |-> index + 1,
                   result |-> apply_operators(apply(pivot_operator, res), operators),
                   applied_operators |-> operators_so_far \o operators,
                   error |-> ""]))))

\* One invocation of _operate_on_one_column up to its recursive call: the
\* frame (m, column_index, result, applied_operators) it passes on, the
\* pair it returns, or the exception of the pivot search.
ColumnStep(M, index, res, operators_so_far) ==
    IF n_columns(M) = index
    THEN [status |-> "returned", m |-> M, column_index |-> index, result |-> res,
          applied_operators |-> operators_so_far, error |-> ""]
    ELSE Let(__partial_pivot_operator(M, index), LAMBDA pivot :
         IF ~pivot.ok
         THEN [status |-> "raised", m |-> M, column_index |-> index, result |-> res,
               applied_operators |-> operators_so_far, error |-> pivot.error]
         ELSE Let(pivot.value, LAMBDA pivot_operator :
              Let(apply(pivot_operator, M), LAMBDA pivoted :
              Let(<<__diagonal_scaling_operator(pivoted, index)>>
                      \o __non_diagonal_zeroing_operators(pivoted, index),
                  LAMBDA operators :
                  [status |-> "running",
                   m |-> apply_operators(pivoted, operators),
                   column_index |-> index + 1,
                   result |-> apply_operators(apply(pivot_operator, res), operators),
                   applied_operators |->
                       operators_so_far \o <<pivot_operator>> \o operators,
                   error |-> ""]))))

RECURSIVE _operate_on_one_column(_, _, _, _)
_operate_on_one_column(M, index, res, operators_so_far) ==
    Let(ColumnStep(M, index, res, operators_so_far), LAMBDA step :
        CASE step.status = "returned" -> Return(<<step.result, step.applied_operators>>)
          [] step.status = "raised" -> Raise(step.error)
          [] OTHER -> _operate_on_one_column(step.m, step.column_index, step.result,
                                             step.applied_operators))

\* Variant: the elimination starts at the second column.
solve_FromSecondColumn(A, Y) == _operate_on_one_column(A, 1, Y, <<>>)

solve(A, Y) == _operate_on_one_column(A, 0, Y, <<>>)

---------------------------------------------------------------------------
(* invert.py and determinant.py.                                           *)

\* Variant: a failed elimination is answered with the identity.
invert_IdentityWhenSingular(M) ==
    Let(solve(M, identity_matrix(n_rows(M)).value), LAMBDA solved :
        IF ~solved.ok THEN identity_matrix(n_rows(M))
        ELSE as_square_matrix(solved.value[1]))

invert(M) ==
    Let(solve(M, identity_matrix(n_rows(M)).value), LAMBDA solved :
        IF ~solved.ok THEN Raise(solved.error)
        ELSE as_square_matrix(solved.value[1]))

\* functools.reduce without an initial value: TypeError on an empty sequence.
RECURSIVE reduce_product(_)
reduce_product(xs) ==
    IF Len(xs) = 1 THEN xs[1]
    ELSE RMul(reduce_product(SubSeq(xs, 1, Len(xs) - 1)), xs[Len(xs)])

\* Variant: a failed elimination is answered with 0.
determinant_ZeroWhenSingular(M) ==
    Let(solve(M, identity_matrix(n_rows(M)).value), LAMBDA solved :
        IF ~solved.ok THEN Return(Zero)
        ELSE Return(reduce_product(
                 Tuple([k \in 1..Len(solved.value[2]) |->
                     matrix_determinant(inverted(solved.value[2][k]))]))))

determinant(M) ==
    Let(solve(M, identity_matrix(n_rows(M)).value), LAMBDA solved :
        IF ~solved.ok THEN Raise(solved.error)
        ELSE Let(solved.value[2], LAMBDA operators :
             Let(Tuple([k \in 1..Len(operators) |->
                          matrix_determinant(inverted(operators[k]))]),
                 LAMBDA inverted_operator_determinants :
                 IF Len(operators) = 0 THEN Raise("TypeError")
                 ELSE Return(reduce_product(inverted_operator_determinants)))))

---------------------------------------------------------------------------
(* The caller: the matrices it builds and the calls it makes.              *)

Tiny == Frac(1, 20000)
Huge == Num(20000)
Base == {Zero, One}
Values == {Zero, One, Num(-2), Tiny, Tolerance, Huge}

Dims == 1..MaxDim

\* The permutation matrices of size n.
PermutationGrids(n) ==
    {Tuple([i \in 1..n |-> Tuple([j \in 1..n |-> IF p[i] = j THEN One ELSE Zero])]) :
        p \in {f \in [1..n -> 1..n] : \A i, j \in 1..n : f[i] = f[j] => i = j}}

\* The triangular grids of 0 and 1.
TriangularGrids(n) ==
    {Tuple([i \in 1..n |-> Tuple(g[i])]) :
        g \in {h \in [1..n -> [1..n -> Base]] :
                  \/ \A i, j \in 1..n : i > j => h[i][j] = Zero
                  \/ \A i, j \in 1..n : i < j => h[i][j] = Zero}}

\* The grids of one value.
ConstantGrids(n) == {Tuple([i \in 1..n |-> Tuple([j \in 1..n |-> v])]) : v \in Values}

\* Permutation matrices with at most one entry replaced, triangular grids and
\* constant grids.
Grids(n) ==
    PermutationGrids(n)
        \cup ConstantGrids(n)
        \cup {[g EXCEPT ![i][j] = v] :
                 g \in PermutationGrids(n), i \in 1..n, j \in 1..n, v \in Values}
        \cup TriangularGrids(n)

SquareInputs == UNION {{square_matrix(g).value : g \in Grids(n)} : n \in Dims}

\* Vectors of ones with at most one entry replaced by -2.
VectorElements(n) ==
    LET ones == Tuple([i \in 1..n |-> One])
    IN  {ones} \cup {[ones EXCEPT ![i] = Num(-2)] : i \in 1..n}

\* The identity with one entry replaced by -2.
NearIdentity(n) ==
    {[__identity_matrix_rows(n) EXCEPT ![i][j] = Num(-2)] : i \in 1..n, j \in 1..n}

RhsInputs(n) ==
    {identity_matrix(n).value}
        \cup {column_vector(e).value : e \in VectorElements(n)}
        \cup {square_matrix(g).value : g \in NearIdentity(n)}

NotCalled == [ok |-> FALSE, value |-> NoValue, error |-> "not called"]

\* An empty cached_property slot.
NotCached == [cached |-> FALSE, value |-> NoValue]

\* No distribution has been built and no further argument is passed.
NoDistribution ==
    /\ args = <<>>
    /\ theta = NoValue
    /\ observation = NoValue
    /\ cached_precision = NotCached
    /\ cached_natural_parameter = NotCached
    /\ log_partition_cache = {}
    /\ invert_calls = 0
    /\ precision_reads = 0

\* The state on entry to solve(a, y): the first frame of _operate_on_one_column.
Init ==
    /\ a \in SquareInputs
    /\ y \in RhsInputs(n_rows(a))
    /\ s = Zero
    /\ pc = "running"
    /\ m = a
    /\ column_index = 0
    /\ result = y
    /\ applied_operators = <<>>
    /\ raised = ""
    /\ call = "none"
    /\ out = NotCalled
    /\ NoDistribution

\* One invocation of _operate_on_one_column.
OperateOnOneColumn ==
    /\ pc = "running"
    /\ \E step \in {ColumnStep(m, column_index, result, applied_operators)} :
           /\ pc' = step.status
           /\ m' = step.m
           /\ column_index' = step.column_index
           /\ result' = step.result
           /\ applied_operators' = step.applied_operators
           /\ raised' = step.error
    /\ UNCHANGED <<a, y, s, call, out, args, gaussian>>

\* The caller evaluates invert(a), in the runs whose right-hand side is the
\* identity: the frame then holds the elimination invert itself runs.
Invert ==
    /\ pc # "running"
    /\ call = "none"
    /\ y = identity_matrix(n_rows(a)).value
    /\ call' = "invert"
    /\ out' = invert(a)
    /\ UNCHANGED <<a, y, s, pc, m, column_index, result, applied_operators, raised,
                   args, gaussian>>

\* The caller evaluates invert(invert(a)), having got invert(a).
InvertInverse ==
    /\ call = "invert"
    /\ out.ok
    /\ call' = "invert_invert"
    /\ out' = invert(out.value)
    /\ UNCHANGED <<a, y, s, pc, m, column_index, result, applied_operators, raised,
                   args, gaussian>>

\* The caller evaluates determinant(a), in the runs whose right-hand side is
\* the identity.
Determinant ==
    /\ pc # "running"
    /\ call = "none"
    /\ y = identity_matrix(n_rows(a)).value
    /\ call' = "determinant"
    /\ out' = determinant(a)
    /\ UNCHANGED <<a, y, s, pc, m, column_index, result, applied_operators, raised,
                   args, gaussian>>

\* The caller evaluates determinant(a * y) for a square y of a's size.
DeterminantOfProduct ==
    /\ pc # "running"
    /\ call = "none"
    /\ y.cls = "SquareMatrix"
    /\ n_rows(y) = n_rows(a)
    /\ call' = "determinant_of_product"
    /\ out' = IF Matrix__mul__(a, y).ok THEN determinant(Matrix__mul__(a, y).value)
              ELSE Raise(Matrix__mul__(a, y).error)
    /\ UNCHANGED <<a, y, s, pc, m, column_index, result, applied_operators, raised,
                   args, gaussian>>

Next ==
    \/ OperateOnOneColumn
    \/ Invert
    \/ InvertInverse
    \/ Determinant
    \/ DeterminantOfProduct

Spec == Init /\ [][Next]_vars

---------------------------------------------------------------------------
(* The caller of the matrix algebra: two matrices from the public           *)
(* constructors, a scalar, and one operation on them.                       *)

\* Grids of one value, and grids of ones with one entry replaced.
AlgebraGrids(nr, nc) ==
    LET ones == [i \in 1..nr |-> [j \in 1..nc |-> One]]
    IN  {[i \in 1..nr |-> [j \in 1..nc |-> v]] : v \in Base}
            \cup {[ones EXCEPT ![i][j] = v] :
                      i \in 1..nr, j \in 1..nc, v \in {Zero, Num(-2)}}

MatrixInputs ==
    UNION {{matrix(g).value : g \in AlgebraGrids(nr, nc)} : nr \in Dims, nc \in Dims}
        \cup UNION {{square_matrix(g).value : g \in AlgebraGrids(n, n)} : n \in Dims}
        \cup UNION {{column_vector([i \in 1..n |-> g[i][1]]).value :
                        g \in AlgebraGrids(n, 1)} : n \in Dims}
        \cup {identity_matrix(n).value : n \in Dims}

ScalarInputs == {Num(2), Frac(-1, 2)}

InitMatrix ==
    /\ a \in MatrixInputs
    /\ y \in MatrixInputs
    /\ s \in ScalarInputs
    /\ pc = "idle"
    /\ m = a
    /\ column_index = 0
    /\ result = y
    /\ applied_operators = <<>>
    /\ raised = ""
    /\ call = "none"
    /\ out = NotCalled
    /\ NoDistribution

Frame == <<a, y, s, pc, m, column_index, result, applied_operators, raised,
           args, gaussian>>

\* a.transpose()
Transpose ==
    /\ call = "none"
    /\ call' = "transpose"
    /\ out' = Return(transpose(a))
    /\ UNCHANGED Frame

\* a.transpose().transpose()
TransposeTranspose ==
    /\ call = "transpose"
    /\ call' = "transpose_transpose"
    /\ out' = Return(transpose(out.value))
    /\ UNCHANGED Frame

\* a == y
Equals ==
    /\ call = "none"
    /\ call' = "eq"
    /\ out' = Return(Matrix__eq__(a, y))
    /\ UNCHANGED Frame

\* a * y
Multiply ==
    /\ call = "none"
    /\ call' = "multiply"
    /\ out' = Mul(a, y)
    /\ UNCHANGED Frame

\* s + a and a + s
ScalarAdd ==
    /\ call = "none"
    /\ \/ call' = "s + M" /\ out' = Add(Float(s), a)
       \/ call' = "M + s" /\ out' = Add(a, Float(s))
    /\ UNCHANGED Frame

\* s - a and a - s
ScalarSubtract ==
    /\ call = "none"
    /\ \/ call' = "s - M" /\ out' = Sub(Float(s), a)
       \/ call' = "M - s" /\ out' = Sub(a, Float(s))
    /\ UNCHANGED Frame

\* s * a and a * s
ScalarMultiply ==
    /\ call = "none"
    /\ \/ call' = "s * M" /\ out' = Mul(Float(s), a)
       \/ call' = "M * s" /\ out' = Mul(a, Float(s))
    /\ UNCHANGED Frame

NextMatrix ==
    \/ Transpose
    \/ TransposeTranspose
    \/ Equals
    \/ Multiply
    \/ ScalarAdd
    \/ ScalarSubtract
    \/ ScalarMultiply

SpecMatrix == InitMatrix /\ [][NextMatrix]_vars

---------------------------------------------------------------------------
(* The caller of the constructors: any tuple of rows, any tuple of         *)
(* elements, well formed or not.                                           *)

SeqsUpTo(S, n) == UNION {[1..k -> S] : k \in 0..n}

\* Rows of 0 to MaxDim elements, and tuples of 0 to MaxDim such rows.
RawRows == SeqsUpTo(SeqsUpTo(Base, MaxDim), MaxDim)

RawElements == SeqsUpTo(Base, MaxDim)

InitConstruct ==
    /\ a = identity_matrix(1).value
    /\ y = identity_matrix(1).value
    /\ s = Zero
    /\ pc = "idle"
    /\ m = a
    /\ column_index = 0
    /\ result = y
    /\ applied_operators = <<>>
    /\ raised = ""
    /\ call = "none"
    /\ out = NotCalled
    /\ NoDistribution

ConstructFrame == <<a, y, s, pc, m, column_index, result, applied_operators, raised,
                    gaussian>>

\* matrix(*rows)
ConstructMatrix ==
    /\ call = "none"
    /\ \E rows \in RawRows :
           /\ args' = rows
           /\ out' = matrix(rows)
    /\ call' = "matrix"
    /\ UNCHANGED ConstructFrame

\* square_matrix(*rows)
ConstructSquareMatrix ==
    /\ call = "none"
    /\ \E rows \in RawRows :
           /\ args' = rows
           /\ out' = square_matrix(rows)
    /\ call' = "square_matrix"
    /\ UNCHANGED ConstructFrame

\* column_vector(*elements)
ConstructColumnVector ==
    /\ call = "none"
    /\ \E elements \in RawElements :
           /\ args' = elements
           /\ out' = column_vector(elements)
    /\ call' = "column_vector"
    /\ UNCHANGED ConstructFrame

NextConstruct ==
    \/ ConstructMatrix
    \/ ConstructSquareMatrix
    \/ ConstructColumnVector

SpecConstruct == InitConstruct /\ [][NextConstruct]_vars

---------------------------------------------------------------------------
(* solve(a, y) on its own, step by step, for coefficient matrices up to     *)
(* MaxSize rows and right-hand sides of the same, one fewer and one more    *)
(* rows.                                                                    *)

MaxSize == 3

EliminationValues == {Zero, Num(-2), Num(3)}

\* The permutation matrices with at most one entry replaced.
EliminationGrids(n) ==
    PermutationGrids(n)
        \cup {[g EXCEPT ![i][j] = v] :
                 g \in PermutationGrids(n), i \in 1..n, j \in 1..n,
                 v \in EliminationValues}

EliminationInputs ==
    UNION {{square_matrix(g).value : g \in EliminationGrids(n)} : n \in 1..MaxSize}

\* The column vector (1, 2, ..., k).
Counting(k) == column_vector(Tuple([i \in 1..k |-> Num(i)])).value

EliminationRhs(n) ==
    {identity_matrix(n).value}
        \cup {Counting(k) : k \in {n - 1, n, n + 1} \ {0}}

\* solve(a, y): the first call _operate_on_one_column(a, 0, y, ()).
InitElimination ==
    /\ a \in EliminationInputs
    /\ y \in EliminationRhs(n_rows(a))
    /\ s = Zero
    /\ pc = "running"
    /\ m = a
    /\ column_index = 0
    /\ result = y
    /\ applied_operators = <<>>
    /\ raised = ""
    /\ call = "none"
    /\ out = NotCalled
    /\ NoDistribution

NextElimination == OperateOnOneColumn

SpecElimination == InitElimination /\ [][NextElimination]_vars

---------------------------------------------------------------------------
(* The caller of the row operators: an operator on the rows of a, with the *)
(* scalar s, applied with its inverse in either order.                     *)

\* The operators on in-range rows of a matrix of n rows.
Operators(n, scalar) ==
    {ElementaryPermutation(<<i, j>>) : i \in 0..(n - 1), j \in 0..(n - 1)}
        \cup {ElementaryMultiplication(i, scalar) : i \in 0..(n - 1)}
        \cup {ElementaryAxpy(scalar, i, j) : i \in 0..(n - 1), j \in 0..(n - 1)}

InitOperator ==
    /\ a \in MatrixInputs
    /\ y = a
    /\ s \in ScalarInputs
    /\ pc = "idle"
    /\ m = a
    /\ column_index = 0
    /\ result = y
    /\ applied_operators = <<>>
    /\ raised = ""
    /\ call = "none"
    /\ out = NotCalled
    /\ NoDistribution

\* apply_operators(a, (operator, operator.inverted()))
ApplyThenInverse ==
    /\ call = "none"
    /\ \E op \in Operators(n_rows(a), s) :
           /\ args' = op
           /\ out' = Return(apply_operators(a, <<op, inverted(op)>>))
    /\ call' = "op, op.inverted()"
    /\ UNCHANGED ConstructFrame

\* apply_operators(a, (operator.inverted(), operator))
InverseThenApply ==
    /\ call = "none"
    /\ \E op \in Operators(n_rows(a), s) :
           /\ args' = op
           /\ out' = Return(apply_operators(a, <<inverted(op), op>>))
    /\ call' = "op.inverted(), op"
    /\ UNCHANGED ConstructFrame

NextOperator ==
    \/ ApplyThenInverse
    \/ InverseThenApply

SpecOperator == InitOperator /\ [][NextOperator]_vars

---------------------------------------------------------------------------
(* distribution: exponential_family.py and gaussian_distribution.py.       *)
(* pi, exp and log stay symbolic: base_measure is the power of 2*pi it     *)
(* raises, a logarithm is the number it is taken of, and a density is the  *)
(* power of 2*pi times exp of a rational minus half a logarithm.  Every    *)
(* function that reads a cache takes the caches st and gives them back     *)
(* with its outcome.                                                       *)

\* The names the distribution imports from the gaussian_elimination package.
imported_invert(M) == invert(M)

imported_determinant(M) == determinant(M)

Pure(outcome, st) == [outcome |-> outcome, st |-> st]

\* Sequencing: an exception of the step ends the computation.
Then(step, Body(_, _)) ==
    Let(step, LAMBDA r : IF r.outcome.ok THEN Body(r.outcome.value, r.st) ELSE r)

as_scalar(M) ==
    IF n_rows(M) = 1 /\ n_columns(M) = 1 THEN Return(M.rows[1][1])
    ELSE Raise("ValueError")

\* _flatten: the elements in row-major order.
_flatten(M) ==
    Tuple([k \in 1..(n_rows(M) * n_columns(M)) |->
        M.rows[((k - 1) \div n_columns(M)) + 1][((k - 1) % n_columns(M)) + 1]])

\* math.log: a domain error unless the argument is positive.
log(v) == IF RGt(v, Zero) THEN Return([log_of |-> v]) ELSE Raise("ValueError")

\* Variant: the row counts are not compared.
of_Unchecked(mean, covariance) ==
    Return([mean |-> mean, covariance |-> covariance])

\* GaussianDistribution.of
of(mean, covariance) ==
    IF n_rows(mean) # n_rows(covariance) THEN Raise("ValueError")
    ELSE Return([mean |-> mean, covariance |-> covariance])

\* GaussianDistributionParameter.precision, a cached_property: the slot is
\* filled when invert returns, and left empty when it raises.
\* Variant: the slot is never filled.
precision_NotStored(th, st) ==
    Let(imported_invert(th.covariance), LAMBDA inverse :
        Pure(inverse,
             [st EXCEPT !.precision_reads = @ + 1, !.invert_calls = @ + 1]))

precision(th, st) ==
    IF st.cached_precision.cached
    THEN Pure(Return(st.cached_precision.value),
              [st EXCEPT !.precision_reads = @ + 1])
    ELSE Let(imported_invert(th.covariance), LAMBDA inverse :
         Pure(inverse,
              [st EXCEPT !.precision_reads = @ + 1,
                         !.invert_calls = @ + 1,
                         !.cached_precision =
                             IF inverse.ok
                             THEN [cached |-> TRUE, value |-> inverse.value]
                             ELSE @]))

\* Variant: the second block is +1/2 of the precision.
natural_parameter_elements_PlusHalf(th, st) ==
    Then(precision(th, st), LAMBDA p1, st1 :
    Then(Pure(Matrix__mul__(p1, th.mean), st1), LAMBDA precision_mean, st2 :
    Then(precision(th, st2), LAMBDA p2, st3 :
    Then(Pure(Matrix__rmul__(p2, Float(Frac(1, 2))), st3), LAMBDA half, st4 :
    Pure(Return(_flatten(precision_mean) \o _flatten(half)), st4)))))

_natural_parameter_elements(th, st) ==
    Then(precision(th, st), LAMBDA p1, st1 :
    Then(Pure(Matrix__mul__(p1, th.mean), st1), LAMBDA precision_mean, st2 :
    Then(precision(th, st2), LAMBDA p2, st3 :
    Then(Pure(Matrix__rmul__(p2, Float(Frac(-1, 2))), st3), LAMBDA half, st4 :
    Pure(Return(_flatten(precision_mean) \o _flatten(half)), st4)))))

\* GaussianDistribution.natural_parameter, a cached_property.
natural_parameter(th, st) ==
    IF st.cached_natural_parameter.cached
    THEN Pure(Return(st.cached_natural_parameter.value), st)
    ELSE Then(_natural_parameter_elements(th, st), LAMBDA elements, st1 :
         Let(column_vector(elements), LAMBDA eta :
             Pure(eta,
                  IF eta.ok
                  THEN [st1 EXCEPT !.cached_natural_parameter =
                                       [cached |-> TRUE, value |-> eta.value]]
                  ELSE st1)))

_sufficient_statistics_elements(x) ==
    Let(Matrix__mul__(x, transpose(x)), LAMBDA outer :
        IF ~outer.ok THEN outer
        ELSE Return(_flatten(x) \o _flatten(outer.value)))

sufficient_statistics(x) ==
    Let(_sufficient_statistics_elements(x), LAMBDA elements :
        IF ~elements.ok THEN elements ELSE column_vector(elements.value))

\* pow(2 * pi, -x.n_rows / 2)
base_measure(x) == [two_pi_power |-> Frac(0 - n_rows(x), 2)]

\* GaussianDistribution.log_partition under lru_cache: a hit reads the value
\* stored for an equal theta; a miss computes it and stores it on return.
\* The value (q + log(d)) / 2 is kept as q / 2 plus half the logarithm of d.
log_partition(th, st) ==
    IF \E entry \in st.log_partition_cache : entry[1] = th
    THEN Pure(Return((CHOOSE entry \in st.log_partition_cache : entry[1] = th)[2]), st)
    ELSE
    Then(precision(th, st), LAMBDA p, st1 :
    Then(Pure(Matrix__mul__(transpose(th.mean), p), st1), LAMBDA mean_p, st2 :
    Then(Pure(Matrix__mul__(mean_p, th.mean), st2), LAMBDA mean_p_mean, st3 :
    Then(Pure(as_scalar(mean_p_mean), st3), LAMBDA q, st4 :
    Then(Pure(imported_determinant(th.covariance), st4), LAMBDA d, st5 :
    Then(Pure(log(d), st5), LAMBDA ln, st6 :
    Let([rational |-> RDiv(q, Num(2)), half_log_of |-> ln.log_of], LAMBDA value :
        Pure(Return(value),
             [st6 EXCEPT !.log_partition_cache = @ \cup {<<th, value>>}]))))))))

\* ExponentialFamily.density: h * exp(-a + as_scalar(eta.transpose() * t)).
density(th, st, x) ==
    Let(base_measure(x), LAMBDA h :
    Then(natural_parameter(th, st), LAMBDA eta, st1 :
    Then(Pure(sufficient_statistics(x), st1), LAMBDA t, st2 :
    Then(log_partition(th, st2), LAMBDA a_, st3 :
    Then(Pure(Matrix__mul__(transpose(eta), t), st3), LAMBDA product, st4 :
    Then(Pure(as_scalar(product), st4), LAMBDA dot, st5 :
    Pure(Return([two_pi_power |-> h.two_pi_power,
                 exponent |-> [rational |-> RAdd(RNeg(a_.rational), dot),
                               minus_half_log_of |-> a_.half_log_of]]),
         st5)))))))

---------------------------------------------------------------------------
(* The caller of the distribution: of(mean, covariance), then calls of      *)
(* natural_parameter, log_partition and density in any order.              *)

MaxReads == 4

\* Grids with one value on the diagonal and one off it, and the upper
\* triangular grids of ones under such a diagonal.
CovarianceGrids(n) ==
    {Tuple([i \in 1..n |-> Tuple([j \in 1..n |-> IF i = j THEN d ELSE o])]) :
        d \in {Zero, One, Num(2), Num(-1)}, o \in {Zero, One}}
    \cup {Tuple([i \in 1..n |-> Tuple([j \in 1..n |->
              IF i = j THEN d ELSE IF i < j THEN One ELSE Zero])]) :
          d \in {One, Num(2)}}

CovarianceInputs ==
    UNION {{square_matrix(g).value : g \in CovarianceGrids(n)} : n \in Dims}

\* Vectors of zeros with at most one entry replaced by 1.
MeanElements(k) ==
    LET zeros == Tuple([i \in 1..k |-> Zero])
    IN  {zeros} \cup {[zeros EXCEPT ![i] = One] : i \in 1..k}

MeanInputs == UNION {{column_vector(e).value : e \in MeanElements(k)} : k \in Dims}

\* Vectors of ones with at most one entry replaced by -2.
ObservationInputs ==
    UNION {{column_vector(e).value : e \in VectorElements(k)} : k \in Dims}

InitGaussian ==
    /\ a = identity_matrix(1).value
    /\ y = identity_matrix(1).value
    /\ s = Zero
    /\ pc = "idle"
    /\ m = a
    /\ column_index = 0
    /\ result = y
    /\ applied_operators = <<>>
    /\ raised = ""
    /\ call = "none"
    /\ out = NotCalled
    /\ NoDistribution

EliminationFrame == <<a, y, s, pc, m, column_index, result, applied_operators, raised>>

\* The caches as the functions take them.
Caches ==
    [cached_precision |-> cached_precision,
     cached_natural_parameter |-> cached_natural_parameter,
     log_partition_cache |-> log_partition_cache,
     invert_calls |-> invert_calls,
     precision_reads |-> precision_reads]

\* The outcome of a call and the caches it leaves.
Leaves(r) ==
    /\ out' = r.outcome
    /\ cached_precision' = r.st.cached_precision
    /\ cached_natural_parameter' = r.st.cached_natural_parameter
    /\ log_partition_cache' = r.st.log_partition_cache
    /\ invert_calls' = r.st.invert_calls
    /\ precision_reads' = r.st.precision_reads

\* GaussianDistribution.of(mean, covariance)
Of ==
    /\ call = "none"
    /\ \E mean \in MeanInputs, covariance \in CovarianceInputs :
           \E made \in {of(mean, covariance)} :
               /\ args' = <<mean, covariance>>
               /\ out' = made
               /\ theta' = made.value
    /\ call' = "of"
    /\ UNCHANGED <<EliminationFrame, observation, cached_precision,
                   cached_natural_parameter, log_partition_cache, invert_calls,
                   precision_reads>>

\* distribution.natural_parameter
NaturalParameter ==
    /\ theta # NoValue
    /\ precision_reads < MaxReads
    /\ \E r \in {natural_parameter(theta, Caches)} : Leaves(r)
    /\ call' = "natural_parameter"
    /\ UNCHANGED <<EliminationFrame, args, theta, observation>>

\* distribution.log_partition(distribution.parameter)
LogPartition ==
    /\ theta # NoValue
    /\ precision_reads < MaxReads
    /\ \E r \in {log_partition(theta, Caches)} : Leaves(r)
    /\ call' = "log_partition"
    /\ UNCHANGED <<EliminationFrame, args, theta, observation>>

\* distribution.density(x)
Density ==
    /\ theta # NoValue
    /\ precision_reads < MaxReads
    /\ \E x \in ObservationInputs :
           /\ observation' = x
           /\ \E r \in {density(theta, Caches, x)} : Leaves(r)
    /\ call' = "density"
    /\ UNCHANGED <<EliminationFrame, args, theta>>

NextGaussian ==
    \/ Of
    \/ NaturalParameter
    \/ LogPartition
    \/ Density

SpecGaussian == InitGaussian /\ [][NextGaussian]_vars

---------------------------------------------------------------------------
(* Reference notions the statements are measured against.                  *)

Minor(rows, j) ==
    [i \in 1..(Len(rows) - 1) |->
        [k \in 1..(Len(rows) - 1) |-> rows[i + 1][IF k < j THEN k ELSE k + 1]]]

\* The determinant by cofactor expansion along the first row.
RECURSIVE CofactorDeterminant(_)
CofactorDeterminant(rows) ==
    IF Len(rows) = 1 THEN rows[1][1]
    ELSE SumSeq([j \in 1..Len(rows) |->
                    RMul(RMul(IF j % 2 = 1 THEN One ELSE Num(-1), rows[1][j]),
                         CofactorDeterminant(Minor(rows, j)))])

IdentityRows(n) == [i \in 1..n |-> [j \in 1..n |-> IF i = j THEN One ELSE Zero]]

\* The product of two grids of numbers, by the textbook formula.
ProductRows(p, q) ==
    [i \in 1..Len(p) |->
        [j \in 1..Len(q[1]) |->
            SumSeq([k \in 1..Len(q) |-> RMul(p[i][k], q[k][j])])]]

---------------------------------------------------------------------------
\* C1: whenever solve(a, y) returns (X, trace) for a square a and a y with
\* a's row count, a times X equals y, element by element.
C1_SolveSolves ==
    (pc = "returned" /\ n_rows(y) = n_rows(a)) => ProductRows(a.rows, result.rows) = y.rows

\* A solve that returned on a 2-by-2 system after a row exchange, with a
\* right-hand side other than the identity.
C1_Witness ==
    /\ pc = "returned"
    /\ n_rows(a) = 2
    /\ y.cls = "ColumnVector"
    /\ result.rows # y.rows
    /\ \E k \in 1..Len(applied_operators) :
          /\ applied_operators[k].kind = "ElementaryPermutation"
          /\ applied_operators[k].indices_of_rows_to_interchange = <<0, 1>>

---------------------------------------------------------------------------
\* The product, over a trace, of the determinant of each operator's inverse.
RECURSIVE TraceProduct(_)
TraceProduct(operators) ==
    IF Len(operators) = 0 THEN One
    ELSE RMul(matrix_determinant(inverted(operators[1])), TraceProduct(Tail(operators)))

InverseOf(rows, candidate) ==
    /\ ProductRows(rows, candidate) = IdentityRows(Len(rows))
    /\ ProductRows(candidate, rows) = IdentityRows(Len(rows))

\* C2 as stated: for every square invertible a (non-zero determinant),
\* invert(a) returns a matrix that is a's inverse on both sides.
C2_Original ==
    (call = "invert" /\ CofactorDeterminant(a.rows) # Zero)
        => (out.ok /\ InverseOf(a.rows, out.value.rows))

\* C2 (amended): for every square a on which elimination succeeds, invert(a)
\* returns a matrix, and a times it and it times a are the identity, element
\* by element.
C2_InvertInverts ==
    (call = "invert" /\ pc = "returned") => (out.ok /\ InverseOf(a.rows, out.value.rows))

\* invert returned for a 2-by-2 matrix whose first column needed a row exchange.
C2_Witness ==
    /\ call = "invert"
    /\ out.ok
    /\ n_rows(a) = 2
    /\ a.rows[1][1] = Zero
    /\ out.value.rows # a.rows

\* C3: when elimination succeeds on a, determinant(a) is the product, over the
\* trace of solve(a, identity), of the determinants of the operators' inverses,
\* and that product is a's determinant by cofactor expansion.
C3_DeterminantIsTraceProduct ==
    (call = "determinant" /\ pc = "returned" /\ y = identity_matrix(n_rows(a)).value)
        => /\ out.ok
           /\ out.value = TraceProduct(applied_operators)
           /\ TraceProduct(applied_operators) = CofactorDeterminant(a.rows)

\* determinant returned a value other than 0, 1 and -1 for a 2-by-2 matrix
\* that needed a row exchange.
C3_Witness ==
    /\ call = "determinant"
    /\ pc = "returned"
    /\ y = identity_matrix(n_rows(a)).value
    /\ out.ok
    /\ n_rows(a) = 2
    /\ a.rows[1][1] = Zero
    /\ out.value \notin {Zero, One, Num(-1)}

\* C4 as stated: for all square a and y of one size, determinant(a * y) is
\* determinant(a) times determinant(y).
C4_Original ==
    call = "determinant_of_product"
        => /\ out.ok
           /\ determinant(a).ok
           /\ determinant(y).ok
           /\ out.value = RMul(determinant(a).value, determinant(y).value)

\* C4 (amended): whenever determinant returns for a, for y and for a * y,
\* determinant(a * y) is determinant(a) times determinant(y).
C4_DeterminantMultiplicative ==
    (call = "determinant_of_product" /\ out.ok /\ determinant(a).ok /\ determinant(y).ok)
        => out.value = RMul(determinant(a).value, determinant(y).value)

\* The three determinants returned for 2-by-2 factors, neither of determinant 1.
C4_Witness ==
    /\ call = "determinant_of_product"
    /\ out.ok
    /\ determinant(a).ok
    /\ determinant(y).ok
    /\ n_rows(a) = 2
    /\ determinant(a).value # One
    /\ determinant(y).value # One

\* C5 as stated: for every square invertible a, invert(invert(a)) returns a
\* matrix and that matrix equals a.
C5_Original ==
    (call = "invert_invert" /\ CofactorDeterminant(a.rows) # Zero)
        => (out.ok /\ Matrix__eq__(out.value, a))

\* C5 (amended): whenever invert(a) and invert(invert(a)) both return, the
\* second result equals a.
C5_InvertTwice ==
    (call = "invert_invert" /\ out.ok) => Matrix__eq__(out.value, a)

\* invert(invert(a)) returned for a 2-by-2 matrix that is not its own inverse.
C5_Witness ==
    /\ call = "invert_invert"
    /\ out.ok
    /\ n_rows(a) = 2
    /\ invert(a).value.rows # a.rows

\* C6: invert(a) and determinant(a) fail exactly when solve(a, identity)
\* fails, and then with the exception solve raised.
C6_FailsExactlyWhenSolveFails ==
    (call \in {"invert", "determinant"} /\ y = identity_matrix(n_rows(a)).value)
        => /\ out.ok <=> pc = "returned"
           /\ ~out.ok => (pc = "raised" /\ out.error = raised)

\* invert or determinant failed on a matrix whose second column has no pivot.
C6_Witness ==
    /\ call \in {"invert", "determinant"}
    /\ y = identity_matrix(n_rows(a)).value
    /\ ~out.ok
    /\ pc = "raised"
    /\ column_index = 1
    /\ out.error = "RuntimeError"

---------------------------------------------------------------------------
SameShape(M, N) == n_rows(M) = n_rows(N) /\ n_columns(M) = n_columns(N)

\* C7: for every matrix the public constructors build, 1-by-1 included,
\* transpose(transpose(M)) == M under the library's equality.
C7_TransposeTwice ==
    call = "transpose_transpose" => Matrix__eq__(out.value, a)

\* C8: two matrices compare equal exactly when they have the same shape and
\* the same elements, whichever constructor built them.
C8_StructuralEquality ==
    call = "eq" => (out.value <=> (SameShape(a, y) /\ a.rows = y.rows))

\* C9: a * y returns exactly when a's column count is y's row count; the
\* result then has a's row count and y's column count and its cell (i, j) is
\* the dot product of row i of a and column j of y; otherwise the call
\* raises the dimension error (ValueError).
C9_Multiply ==
    call = "multiply"
        => /\ out.ok <=> n_columns(a) = n_rows(y)
           /\ out.ok => /\ n_rows(out.value) = n_rows(a)
                        /\ n_columns(out.value) = n_columns(y)
                        /\ out.value.rows = ProductRows(a.rows, y.rows)
           /\ ~out.ok => out.error = "ValueError"

\* A 2-by-2 product of factors that do not commute.
C9_Witness ==
    /\ call = "multiply"
    /\ out.ok
    /\ n_rows(out.value) = 2
    /\ n_columns(out.value) = 2
    /\ Mul(y, a).ok
    /\ Mul(y, a).value.rows # out.value.rows

\* The grid of f(s, x) over the elements x of rows.
Elementwise(f, scalar, rows) ==
    [i \in 1..Len(rows) |->
        [j \in 1..Len(rows[i]) |->
            CASE f = "+" -> RAdd(scalar, rows[i][j])
              [] f = "-" -> RSub(scalar, rows[i][j])
              [] f = "*" -> RMul(scalar, rows[i][j])]]

ScalarOnLeft == {"s + M", "s - M", "s * M"}
ScalarOnRight == {"M + s", "M - s", "M * s"}

LeftResult(c, scalar, M) ==
    [cls |-> M.cls,
     rows |-> Elementwise(IF c = "s + M" THEN "+" ELSE IF c = "s - M" THEN "-" ELSE "*",
                          scalar, M.rows)]

\* C10 as stated: the scalar is accepted on either side; s + M == M + s and
\* s * M == M * s, each element combined with s; s - M and M - s both return.
C10_Original ==
    /\ call \in ScalarOnLeft => (out.ok /\ out.value = LeftResult(call, s, a))
    /\ call = "M + s" => (out.ok /\ Matrix__eq__(out.value, Add(Float(s), a).value))
    /\ call = "M * s" => (out.ok /\ Matrix__eq__(out.value, Mul(Float(s), a).value))
    /\ call = "M - s" => out.ok

\* C10 (amended): the scalar is accepted on the left only.  s + M, s - M and
\* s * M return the matrix of M's class and shape whose elements are s + x,
\* s - x and s * x; M + s, M - s and M * s raise AttributeError.
C10_ScalarOnLeftOnly ==
    /\ call \in ScalarOnLeft => (out.ok /\ out.value = LeftResult(call, s, a))
    /\ call \in ScalarOnRight => (~out.ok /\ out.error = "AttributeError")

\* s - M returned for a 2-by-2 matrix: a result that M - s, had it been
\* computed element by element, would not have given.
C10_Witness ==
    /\ call = "s - M"
    /\ out.ok
    /\ n_rows(a) = 2
    /\ n_columns(a) = 2
    /\ out.value.rows # a.rows

---------------------------------------------------------------------------
\* The three malformed shapes of a constructor's rows.
ZeroRows(rows) == Len(rows) = 0
ZeroColumns(rows) == \E i \in 1..Len(rows) : Len(rows[i]) = 0
UnequalRows(rows) == \E i, j \in 1..Len(rows) : Len(rows[i]) # Len(rows[j])

\* C11: matrix, square_matrix and column_vector, given zero rows, rows of zero
\* columns or rows of unequal length, fail in each of the three cases with
\* the shape error (ValueError) and produce no matrix.
C11_ShapeError ==
    /\ (call \in {"matrix", "square_matrix"}
            /\ (ZeroRows(args) \/ ZeroColumns(args) \/ UnequalRows(args)))
           => (~out.ok /\ out.error = "ValueError")
    /\ (call = "column_vector" /\ ZeroRows(args))
           => (~out.ok /\ out.error = "ValueError")

---------------------------------------------------------------------------
\* C12: for every elementary row operator on in-range rows (a scaling by a
\* non-zero scalar) and every matrix a, applying the operator and then its
\* inverse, or the inverse and then the operator, gives a matrix of a's shape
\* and a's elements.
C12_InverseUndoes ==
    call \in {"op, op.inverted()", "op.inverted(), op"}
        => (out.ok /\ SameShape(out.value, a) /\ out.value.rows = a.rows)

\* An axpy between two different rows of a two-row matrix, which changes the
\* matrix, followed by its inverse.
C12_Witness ==
    /\ call = "op, op.inverted()"
    /\ args.kind = "ElementaryAxpy"
    /\ args.index_of_row_to_multiply # args.index_of_row_to_replace
    /\ n_rows(a) = 2
    /\ apply(args, a).rows # a.rows
    /\ out.value.rows = a.rows

---------------------------------------------------------------------------
\* One column step of the elimination that is not the final return.
PivotStep ==
    /\ pc = "running"
    /\ column_index < n_columns(m)
    /\ (pc' = "raised" \/ column_index' = column_index + 1)

\* The magnitude of the diagonal entry of the column being processed.
Diagonal == RAbs(m.rows[column_index + 1][column_index + 1])

\* The rows below the diagonal whose entry in the column exceeds the tolerance.
Candidates ==
    {r \in (column_index + 1)..(n_rows(m) - 1) :
        RGt(RAbs(m.rows[r + 1][column_index + 1]), Tolerance)}

FirstCandidate == CHOOSE r \in Candidates : \A q \in Candidates : r <= q

\* The pivot operator the step has appended to the trace.
Chosen == applied_operators'[Len(applied_operators) + 1]

\* The step continues with the given pivot operator.
ContinuesWith(op) == pc' = "running" /\ Chosen = op

---------------------------------------------------------------------------
\* Column j (0-based) of M is column j of the identity.
IsIdentityColumn(M, j) ==
    \A i \in 1..n_rows(M) : M.rows[i][j + 1] = IF i = j + 1 THEN One ELSE Zero

\* C16: at every point of the elimination, each column already processed
\* (every j below column_index) of the evolving matrix m is the column of the
\* identity, and when solve returns m is the identity.
C16_ReducedColumnsStay ==
    /\ \A j \in 0..(column_index - 1) : IsIdentityColumn(m, j)
    /\ pc = "returned" => m.rows = __identity_matrix_rows(n_rows(a))

\* A three-row elimination has returned after a row exchange in its second
\* column step, whose diagonal entry was not 1 and which had an entry to
\* clear above the diagonal.
C16_Witness ==
    /\ pc = "returned"
    /\ n_rows(a) = 3
    /\ Len(applied_operators) = 12
    /\ applied_operators[5] = ElementaryPermutation(<<1, 2>>)
    /\ applied_operators[6].scalar # One
    /\ applied_operators[7].scalar # Zero
    /\ m.rows = __identity_matrix_rows(3)

\* C17: when solve(a, y) returns (result, applied_operators), the operators
\* applied in order to the original a give the identity, and applied in the
\* same order to the original y give result.
C17_TraceReplays ==
    pc = "returned" =>
        /\ apply_operators(a, applied_operators).rows = __identity_matrix_rows(n_rows(a))
        /\ apply_operators(y, applied_operators) = result

\* A returned solve whose trace holds a row exchange and whose right-hand side
\* is a column vector with a's row count.
C17_Witness ==
    /\ pc = "returned"
    /\ n_rows(a) = 3
    /\ y = Counting(3)
    /\ applied_operators[1] = ElementaryPermutation(<<0, 2>>)
    /\ apply_operators(y, applied_operators) = result
    /\ result # y

\* C20: solve(a, y) returns only when y has a's row count, and with another
\* row count it fails with the dimension error.
C20_RowCountChecked ==
    /\ pc = "returned" => n_rows(y) = n_rows(a)
    /\ (pc # "running" /\ n_rows(y) # n_rows(a))
           => (pc = "raised" /\ raised = "ValueError")

---------------------------------------------------------------------------
(* Reference notions for the Gaussian density.                             *)

\* Elimination finds no usable pivot in the matrix.
Singular(M) == ~solve(M, identity_matrix(n_rows(M)).value).ok

Symmetric(rows) == \A i, j \in 1..Len(rows) : rows[i][j] = rows[j][i]

MinorAt(rows, r, c) ==
    [i \in 1..(Len(rows) - 1) |->
        [k \in 1..(Len(rows) - 1) |->
            rows[IF i < r THEN i ELSE i + 1][IF k < c THEN k ELSE k + 1]]]

\* The inverse by the adjugate formula (for a non-zero determinant).
AdjugateInverse(rows) ==
    IF Len(rows) = 1 THEN <<<<RDiv(One, rows[1][1])>>>>
    ELSE [i \in 1..Len(rows) |->
            [j \in 1..Len(rows) |->
                RDiv(RMul(IF (i + j) % 2 = 0 THEN One ELSE Num(-1),
                          CofactorDeterminant(MinorAt(rows, j, i))),
                     CofactorDeterminant(rows))]]

\* v' P v for a sequence v and a grid P.
QuadraticForm(v, P) ==
    SumSeq([i \in 1..Len(v) |->
        SumSeq([j \in 1..Len(v) |-> RMul(RMul(v[i], P[i][j]), v[j])])])

Deviation(th, x) ==
    [i \in 1..n_rows(x) |-> RSub(x.rows[i][1], th.mean.rows[i][1])]

\* (2 pi)^(-k/2) det^(-1/2) exp(-1/2 (x - mean)' inverse (x - mean)), in the
\* form of a density value: the power of 2 pi, and the exponent as its
\* rational part minus half the logarithm of the determinant.
ClosedForm(th, x) ==
    [two_pi_power |-> Frac(0 - n_rows(th.mean), 2),
     exponent |->
        [rational |-> RMul(Frac(-1, 2),
                           QuadraticForm(Deviation(th, x),
                                         AdjugateInverse(th.covariance.rows))),
         minus_half_log_of |-> CofactorDeterminant(th.covariance.rows)]]

Matching == n_rows(observation) = n_rows(theta.mean)

\* The density call got as far as eta.transpose() * t and failed there.
FailedAtMultiply ==
    /\ ~out.ok
    /\ out.error = "ValueError"
    /\ cached_natural_parameter.cached
    /\ log_partition_cache # {}
    /\ ~Matrix__mul__(transpose(cached_natural_parameter.value),
                      sufficient_statistics(observation).value).ok

\* C13 as stated: of fails on a mean and a covariance of different row
\* counts, and density(x) fails with the dimension error of the matrix
\* multiply whenever x's row count differs from the mean's.
C13_Original ==
    /\ (call = "of" /\ n_rows(args[1]) # n_rows(args[2]))
           => (~out.ok /\ out.error = "ValueError" /\ theta = NoValue)
    /\ (call = "density" /\ ~Matching) => FailedAtMultiply

\* C13: of fails (ValueError) on a mean and a covariance of different row
\* counts, and density(x) never returns a value when x's row count differs
\* from the mean's: it fails with the error of elimination when the
\* covariance is singular, with the domain error of the logarithm when the
\* determinant is not positive, and otherwise with the dimension error of the
\* matrix multiply.
C13_NeverReturned ==
    /\ (call = "of" /\ n_rows(args[1]) # n_rows(args[2]))
           => (~out.ok /\ out.error = "ValueError" /\ theta = NoValue)
    /\ (call = "density" /\ ~Matching) =>
           /\ ~out.ok
           /\ IF Singular(theta.covariance)
              THEN out.error = "RuntimeError" /\ ~cached_natural_parameter.cached
              ELSE IF ~RGt(determinant(theta.covariance).value, Zero)
              THEN out.error = "ValueError" /\ log_partition_cache = {}
              ELSE FailedAtMultiply

\* A density call on a two-dimensional distribution with a one-dimensional
\* observation has failed at the multiply.
C13_Witness ==
    /\ call = "density"
    /\ n_rows(theta.mean) = 2
    /\ n_rows(observation) = 1
    /\ FailedAtMultiply

\* C14 as stated: for every accepted mean and covariance on which elimination
\* succeeds and every observation of matching dimension, density(x) returns
\* the closed-form normal density.
C14_Original ==
    (call = "density" /\ Matching /\ ~Singular(theta.covariance))
        => (out.ok /\ out.value = ClosedForm(theta, observation))

\* C14: for a symmetric covariance with a positive determinant on which
\* elimination succeeds, and an observation of matching dimension, density(x)
\* returns the closed-form normal density; for a covariance whose determinant
\* is not positive it raises the domain error of the logarithm.
C14_ClosedFormWhenSymmetric ==
    (call = "density" /\ Matching /\ ~Singular(theta.covariance)) =>
        /\ (Symmetric(theta.covariance.rows)
               /\ RGt(CofactorDeterminant(theta.covariance.rows), Zero))
              => (out.ok /\ out.value = ClosedForm(theta, observation))
        /\ ~RGt(CofactorDeterminant(theta.covariance.rows), Zero)
              => (~out.ok /\ out.error = "ValueError")

\* A density of a two-dimensional distribution with correlated components
\* and a non-zero mean has been returned.
C14_Witness ==
    /\ call = "density"
    /\ out.ok
    /\ n_rows(theta.mean) = 2
    /\ theta.covariance.rows[1][2] = One
    /\ theta.covariance.rows[2][1] = One
    /\ theta.mean.rows[1][1] = One
    /\ out.value.exponent.rational # Zero
    /\ out.value = ClosedForm(theta, observation)

\* C18 as stated: over any sequence of calls on one parameter instance,
\* invert(covariance) is executed at most once.
C18_Original == invert_calls <= 1

\* C18: when invert accepts the covariance it is executed at the first read
\* of the precision and never again, the later reads taking the stored value;
\* when invert raises, nothing is stored and every read executes it again.
C18_InvertOnceWhenItReturns ==
    theta # NoValue =>
        IF ~Singular(theta.covariance)
        THEN /\ invert_calls = Min2(1, precision_reads)
             /\ cached_precision.cached <=> precision_reads >= 1
             /\ cached_precision.cached
                    => cached_precision.value = invert(theta.covariance).value
        ELSE /\ invert_calls = precision_reads
             /\ ~cached_precision.cached

\* The precision of an invertible covariance has been read three times, by
\* natural_parameter and log_partition, with one execution of invert.
C18_Witness ==
    /\ theta # NoValue
    /\ ~Singular(theta.covariance)
    /\ call = "density"
    /\ out.ok
    /\ precision_reads = 3
    /\ invert_calls = 1

\* C19: with a singular covariance every density call fails with the error
\* solve raises, and neither the precision, the natural parameter nor the
\* log-partition is stored.
C19_SingularNeverReturns ==
    (call = "density" /\ Singular(theta.covariance)) =>
        /\ ~out.ok
        /\ out.error = solve(theta.covariance,
                             identity_matrix(n_rows(theta.covariance)).value).error
        /\ ~cached_precision.cached
        /\ ~cached_natural_parameter.cached
        /\ log_partition_cache = {}

\* A density call on a singular two-by-two covariance has failed after
\* earlier calls on the same distribution had failed.
C19_Witness ==
    /\ call = "density"
    /\ n_rows(theta.covariance) = 2
    /\ Singular(theta.covariance)
    /\ Matching
    /\ invert_calls = 3
    /\ out.error = "RuntimeError"

---------------------------------------------------------------------------
\* The operators the trace holds for column c of an n-row elimination.
TraceGroup(c, n) == SubSeq(applied_operators, c * (n + 1) + 1, (c + 1) * (n + 1))

\* The evolving matrix on entry to column c, replayed from the trace.
EvolvingBefore(c, n) == apply_operators(a, SubSeq(applied_operators, 1, c * (n + 1)))

\* The k-th row other than c, in increasing order (k from 1).
OtherRow(c, k) == IF k - 1 < c THEN k - 1 ELSE k

\* A group is a permutation (the no-op exactly when the diagonal entry on
\* entry exceeded the tolerance, otherwise an exchange of c with a row
\* below it), a scaling of row c, and the axpys of row c onto the other
\* rows in increasing order.
WellFormedGroup(g, c, n) ==
    /\ Len(g) = n + 1
    /\ g[1].kind = "ElementaryPermutation"
    /\ IF RGt(RAbs(EvolvingBefore(c, n).rows[c + 1][c + 1]), Tolerance)
       THEN g[1] = noop
       ELSE \E r \in (c + 1)..(n - 1) : g[1] = ElementaryPermutation(<<c, r>>)
    /\ g[2].kind = "ElementaryMultiplication"
    /\ g[2].index_of_row_to_multiply = c
    /\ \A k \in 1..(n - 1) :
           /\ g[2 + k].kind = "ElementaryAxpy"
           /\ g[2 + k].index_of_row_to_multiply = c
           /\ g[2 + k].index_of_row_to_replace = OtherRow(c, k)

\* C21: when solve returns for an n-row a, the trace has n * (n + 1)
\* operators, and for each column c = 0..n-1 in increasing order its group
\* is one permutation, one scaling of row c, and n - 1 axpys that multiply
\* row c and replace the other rows in increasing order.
C21_TraceShape ==
    pc = "returned" =>
        /\ Len(applied_operators) = n_rows(a) * (n_rows(a) + 1)
        /\ \A c \in 0..(n_rows(a) - 1) :
               WellFormedGroup(TraceGroup(c, n_rows(a)), c, n_rows(a))

\* A three-row solve has returned with a no-op permutation in its first
\* group and an exchange in its second.
C21_Witness ==
    /\ pc = "returned"
    /\ n_rows(a) = 3
    /\ Len(applied_operators) = 12
    /\ applied_operators[1] = noop
    /\ applied_operators[5] = ElementaryPermutation(<<1, 2>>)
    /\ applied_operators[8].index_of_row_to_replace = 2
    /\ applied_operators[11].index_of_row_to_replace = 0

====
